---- MODULE Spec2Model ----
(***************************************************************************)
(* A model of src/kdtree.js: the 2-d k-d tree built by the KDTree          *)
(* constructor (createKDTree_) and the k-nearest-neighbour search          *)
(* (getNearestNeighbour, getNearestNeighbours, getNearestNeighbours_,      *)
(* insertResult_).                                                         *)
(*                                                                         *)
(* A point is a record [x, y]; a rectangle is [minX, maxX, minY, maxY].    *)
(* A JavaScript reference that may be null (rootNode, leftChild,           *)
(* rightChild) is a sequence of length 0 (null) or 1 (the node).           *)
(* Array.prototype.sort is modelled as a stable sort (ES2019; the engines  *)
(* that predate it are stable on arrays this short as well).               *)
(* The optional opt_consideredPoints array is not modelled: it is written  *)
(* and never read by the search.                                           *)
(***************************************************************************)
EXTENDS Integers, Sequences, FiniteSets

\* ---------------------------------------------------------------- bounds

\* The drawn input arrays hold at most MaxLen points.
MaxLen == 3

\* The coordinates the drawn points and the queries take.
Coord == 0..1

Points == [x : Coord, y : Coord]

RECURSIVE SeqsUpTo(_, _)
SeqsUpTo(S, n) ==
    IF n = 0 THEN {<<>>}
    ELSE LET shorter == SeqsUpTo(S, n - 1)
         IN shorter \cup {Append(s, p) : s \in {t \in shorter : Len(t) = n - 1}, p \in S}

Pt(a, b) == [x |-> a, y |-> b]

\* The five-point input of the documented scenario.
ScenarioPoints == <<Pt(0, 0), Pt(1, 1), Pt(2, 2), Pt(5, 5), Pt(0, 5)>>

Inputs == SeqsUpTo(Points, MaxLen) \cup {ScenarioPoints}

\* maxResults as the caller may pass it: below 1, within, and above the size.
KValues == (0 - 1)..(MaxLen + 1)

\* ------------------------------------------------------------- constants

AXIS_X == 0

AXIS_Y == 1

K == 2

Null == <<>>

Min(a, b) == IF a <= b THEN a ELSE b

Max(a, b) == IF a >= b THEN a ELSE b

\* -------------------------------------------------------------- building

KDTreeNode(point) ==
    [point |-> point, leftChild |-> Null, rightChild |-> Null]

\* The comparator handed to points.sort: negative, zero or positive.
Compare(axis, a, b) == IF axis = AXIS_X THEN a.x - b.x ELSE a.y - b.y

\* One step of the stable sort: p goes after every element that does not
\* compare greater than it.
RECURSIVE SortedInsert(_, _, _)
SortedInsert(s, p, axis) ==
    IF s = <<>> THEN <<p>>
    ELSE IF Compare(axis, s[Len(s)], p) > 0
         THEN Append(SortedInsert(SubSeq(s, 1, Len(s) - 1), p, axis), s[Len(s)])
         ELSE Append(s, p)

RECURSIVE Sort(_, _)
Sort(s, axis) ==
    IF s = <<>> THEN <<>>
    ELSE SortedInsert(Sort(SubSeq(s, 1, Len(s) - 1), axis), s[Len(s)], axis)

\* The bounding rectangle before any point is folded in.
InitialBoundingRect ==
    [maxX |-> (0 - 2147483647) - 1, minX |-> 2147483647,
     maxY |-> (0 - 2147483647) - 1, minY |-> 2147483647]

RECURSIVE FoldBoundingRect(_, _, _)
FoldBoundingRect(points, i, rect) ==
    IF i > Len(points) THEN rect
    ELSE FoldBoundingRect(points, i + 1,
            [minX |-> Min(rect.minX, points[i].x),
             minY |-> Min(rect.minY, points[i].y),
             maxX |-> Max(rect.maxX, points[i].x),
             maxY |-> Max(rect.maxY, points[i].y)])

\* medianIndex with a fault: the pivot is the last element, not the median.
medianIndexLast(length) == length - 1

\* Zero-based index of the pivot in the sorted array.
medianIndex(length) == length \div 2

\* leftChildBoundingRect with a fault: clips the other axis.
leftChildBoundingRectOtherAxis(axis, point, boundingRect) ==
    [minX |-> boundingRect.minX,
     maxX |-> IF axis = AXIS_Y THEN point.x ELSE boundingRect.maxX,
     minY |-> boundingRect.minY,
     maxY |-> IF axis = AXIS_X THEN point.y ELSE boundingRect.maxY]

leftChildBoundingRect(axis, point, boundingRect) ==
    [minX |-> boundingRect.minX,
     maxX |-> IF axis = AXIS_X THEN point.x ELSE boundingRect.maxX,
     minY |-> boundingRect.minY,
     maxY |-> IF axis = AXIS_Y THEN point.y ELSE boundingRect.maxY]

rightChildBoundingRect(axis, point, boundingRect) ==
    [minX |-> IF axis = AXIS_X THEN point.x ELSE boundingRect.minX,
     maxX |-> boundingRect.maxX,
     minY |-> IF axis = AXIS_Y THEN point.y ELSE boundingRect.minY,
     maxY |-> boundingRect.maxY]

\* The array the caller holds after createKDTree_ has run on it: the sort is
\* done on the array object itself, the recursive calls work on slices.
SortedInPlace(points, depth) ==
    IF Len(points) = 0 THEN points ELSE Sort(points, depth % K)

RECURSIVE createKDTree_(_, _, _)
createKDTree_(points, depth, boundingRect) ==
    IF Len(points) = 0 THEN Null
    ELSE LET axis   == depth % K
             sorted == SortedInPlace(points, depth)
             m      == medianIndex(Len(sorted))
             node   == KDTreeNode(sorted[m + 1])
             left   == leftChildBoundingRect(axis, node.point, boundingRect)
             right  == rightChildBoundingRect(axis, node.point, boundingRect)
         IN <<[point        |-> node.point,
               boundingRect |-> boundingRect,
               leftChild    |-> createKDTree_(SubSeq(sorted, 1, m), depth + 1, left),
               rightChild   |-> createKDTree_(SubSeq(sorted, m + 2, Len(sorted)),
                                              depth + 1, right)]>>

\* ------------------------------------------------------------- searching

getSquaredEuclidianDistance(x1, y1, x2, y2) ==
    LET dx == x1 - x2
        dy == y1 - y2
    IN dx * dx + dy * dy

\* The backward scan of insertResult_, on 1-based indices: the index of the
\* entry the loop breaks at, 0 when it runs off the front.
RECURSIVE ScanBack(_, _, _)
ScanBack(results, i, insertNode) ==
    IF i < 1 THEN 0
    ELSE IF insertNode.distance > results[i].distance THEN i
         ELSE ScanBack(results, i - 1, insertNode)

\* insertResult_ with a fault: the scan breaks on >= instead of >, so an entry
\* goes behind the entries of its own distance.
RECURSIVE ScanBackOrEqual(_, _, _)
ScanBackOrEqual(results, i, insertNode) ==
    IF i < 1 THEN 0
    ELSE IF insertNode.distance >= results[i].distance THEN i
         ELSE ScanBackOrEqual(results, i - 1, insertNode)

insertResultAfterEqual_(results, insertNode, maxResults) ==
    LET insertIndex == ScanBackOrEqual(results, Len(results), insertNode)
        spliced == SubSeq(results, 1, insertIndex) \o <<insertNode>>
                       \o SubSeq(results, insertIndex + 1, Len(results))
    IN IF Len(spliced) > maxResults
       THEN SubSeq(spliced, 1, Len(spliced) - 1)
       ELSE spliced

\* insertResult_ with a fault: the list is never cut back to maxResults.
insertResultNoPop_(results, insertNode, maxResults) ==
    LET insertIndex == ScanBack(results, Len(results), insertNode)
    IN SubSeq(results, 1, insertIndex) \o <<insertNode>>
           \o SubSeq(results, insertIndex + 1, Len(results))

insertResult_(results, insertNode, maxResults) ==
    LET insertIndex == ScanBack(results, Len(results), insertNode)
        spliced == SubSeq(results, 1, insertIndex) \o <<insertNode>>
                       \o SubSeq(results, insertIndex + 1, Len(results))
    IN IF Len(spliced) > maxResults
       THEN SubSeq(spliced, 1, Len(spliced) - 1)
       ELSE spliced

\* The point (toX, toY) of the opposite child's rectangle nearest to
\* searchCoord, as the search computes it.
NearestOnPerimeter(axis, point, searchCoord, rect) ==
    IF axis = AXIS_X
    THEN [x |-> point.x,
          y |-> IF searchCoord.y < rect.minY THEN rect.minY
                ELSE IF searchCoord.y > rect.maxY THEN rect.maxY
                ELSE searchCoord.y]
    ELSE [y |-> point.y,
          x |-> IF searchCoord.x < rect.minX THEN rect.minX
                ELSE IF searchCoord.x > rect.maxX THEN rect.maxX
                ELSE searchCoord.x]

\* OppositeWorthSearching with a fault: the bound is compared with the best
\* entry of the list instead of the worst.
OppositeWorthSearchingBest(squaredDist, results) ==
    squaredDist <= results[1].distance

\* OppositeWorthSearching with a fault: strict comparison.
OppositeWorthSearchingStrict(squaredDist, results) ==
    squaredDist < results[Len(results)].distance

\* The test that guards the recursion into the opposite child.
OppositeWorthSearching(squaredDist, results) ==
    squaredDist <= results[Len(results)].distance

\* The state a search threads through its recursion: the results array, a
\* record of every insertResult_ call and of every decision taken at an
\* opposite child, and whether a TypeError was thrown.
EmptySearch == [results |-> <<>>, inserts |-> <<>>, decisions |-> <<>>, thrown |-> FALSE]

RECURSIVE getNearestNeighbours_(_, _, _, _, _)
getNearestNeighbours_(currNode, searchCoord, depth, st, maxResults) ==
    IF currNode = Null
    THEN [st EXCEPT !.thrown = TRUE]     \* currNode.point of null
    ELSE
    LET node == currNode[1]
        axis == depth % K
        currNodeDistanceToDesiredCoord ==
            getSquaredEuclidianDistance(searchCoord.x, searchCoord.y,
                                        node.point.x, node.point.y)
        bestSeen == [node |-> node, distance |-> currNodeDistanceToDesiredCoord]
        inserted == insertResult_(st.results, bestSeen, maxResults)
        st1 == [st EXCEPT !.results = inserted,
                          !.inserts = Append(@, [before |-> st.results,
                                                 entry  |-> bestSeen,
                                                 after  |-> inserted])]
        searchNodeSplittingCoord == IF axis = AXIS_X THEN searchCoord.x ELSE searchCoord.y
        currNodeSplittingCoord   == IF axis = AXIS_X THEN node.point.x ELSE node.point.y
        searchLeft    == searchNodeSplittingCoord < currNodeSplittingCoord
        targetChild   == IF searchLeft THEN node.leftChild ELSE node.rightChild
        oppositeChild == IF searchLeft THEN node.rightChild ELSE node.leftChild
        st2 == IF targetChild # Null
               THEN getNearestNeighbours_(targetChild, searchCoord, depth + 1, st1, maxResults)
               ELSE st1
    IN  IF st2.thrown \/ oppositeChild = Null THEN st2
        ELSE
        LET rect == oppositeChild[1].boundingRect
            to == NearestOnPerimeter(axis, node.point, searchCoord, rect)
            squaredDist == getSquaredEuclidianDistance(searchCoord.x, searchCoord.y, to.x, to.y)
        IN  IF Len(st2.results) = 0
            THEN [st2 EXCEPT !.thrown = TRUE]    \* results[-1].distance of undefined
            ELSE
            LET go == OppositeWorthSearching(squaredDist, st2.results)
                st3 == [st2 EXCEPT !.decisions =
                           Append(@, [point    |-> node.point,
                                      depth    |-> depth,
                                      rect     |-> rect,
                                      worst    |-> st2.results[Len(st2.results)].distance,
                                      size     |-> Len(st2.results),
                                      searched |-> go])]
            IN  IF go
                THEN getNearestNeighbours_(oppositeChild, searchCoord, depth + 1, st3, maxResults)
                ELSE st3

\* results[i].node.point for every i.
PointsOf(results) == [i \in 1..Len(results) |-> results[i].node.point]

\* ------------------------------------------------------------ the machine

VARIABLES
    original,   \* the caller's array as it was handed to the constructor
    points,     \* the caller's array as it is now
    built,      \* whether new KDTree(points) has returned
    rootNode,   \* this.rootNode
    call,       \* the last query: its name and arguments
    outcome,    \* "none", "returned" or "TypeError"
    returned,   \* the value the last query returned
    search      \* the search state the last query ended with

vars == <<original, points, built, rootNode, call, outcome, returned, search>>

NoCall == [op |-> "none", searchCoord |-> Pt(0, 0), maxResults |-> 0]

Init ==
    /\ original \in Inputs
    /\ points = original
    /\ built = FALSE
    /\ rootNode = Null
    /\ call = NoCall
    /\ outcome = "none"
    /\ returned = <<>>
    /\ search = EmptySearch

\* new KDTree(points)
KDTree ==
    /\ ~built
    /\ built' = TRUE
    /\ rootNode' = createKDTree_(points, 0, FoldBoundingRect(points, 1, InitialBoundingRect))
    /\ points' = SortedInPlace(points, 0)
    /\ UNCHANGED <<original, call, outcome, returned, search>>

\* tree.getNearestNeighbour(searchCoord)
getNearestNeighbour(searchCoord) ==
    /\ built
    /\ LET st == getNearestNeighbours_(rootNode, searchCoord, 0, EmptySearch, 1)
       IN /\ search' = st
          /\ outcome' = IF st.thrown THEN "TypeError" ELSE "returned"
          /\ returned' = IF st.thrown \/ Len(st.results) = 0
                         THEN Null
                         ELSE <<st.results[1].node.point>>
    /\ call' = [op |-> "getNearestNeighbour", searchCoord |-> searchCoord, maxResults |-> 1]
    /\ UNCHANGED <<original, points, built, rootNode>>

\* tree.getNearestNeighbours(searchCoord, maxResults)
getNearestNeighbours(searchCoord, maxResults) ==
    /\ built
    /\ LET st == getNearestNeighbours_(rootNode, searchCoord, 0, EmptySearch, maxResults)
       IN /\ search' = st
          /\ outcome' = IF st.thrown THEN "TypeError" ELSE "returned"
          /\ returned' = IF st.thrown THEN <<>> ELSE PointsOf(st.results)
    /\ call' = [op |-> "getNearestNeighbours", searchCoord |-> searchCoord,
                maxResults |-> maxResults]
    /\ UNCHANGED <<original, points, built, rootNode>>

Next ==
    \/ KDTree
    \/ \E q \in Points : getNearestNeighbour(q)
    \/ \E q \in Points, k \in KValues : getNearestNeighbours(q, k)

Spec == Init /\ [][Next]_vars

\* ------------------------------------------------------------ properties

\* Squared Euclidean distance between two points, written out.
SqDist(p, q) == (p.x - q.x) * (p.x - q.x) + (p.y - q.y) * (p.y - q.y)

Count(s, p) == Cardinality({i \in 1..Len(s) : s[i] = p})

AscendingFrom(s, q) ==
    \A i \in 1..Len(s), j \in 1..Len(s) : i < j => SqDist(s[i], q) <= SqDist(s[j], q)

\* Every node of a tree with its depth.
RECURSIVE NodesAt(_, _)
NodesAt(t, depth) ==
    IF t = Null THEN {}
    ELSE {[node |-> t[1], depth |-> depth]}
             \cup NodesAt(t[1].leftChild, depth + 1)
             \cup NodesAt(t[1].rightChild, depth + 1)

RECURSIVE Size(_)
Size(t) == IF t = Null THEN 0 ELSE 1 + Size(t[1].leftChild) + Size(t[1].rightChild)

RECURSIVE Height(_)
Height(t) ==
    IF t = Null THEN 0
    ELSE 1 + Max(Height(t[1].leftChild), Height(t[1].rightChild))

\* The least h with 2^h >= n, that is ceil(log2(n)) for n >= 1.
CeilLog2(n) == CHOOSE h \in 0..n : 2^h >= n /\ \A g \in 0..(h - 1) : 2^g < n

Clamp(v, lo, hi) == IF v < lo THEN lo ELSE IF v > hi THEN hi ELSE v

\* Squared distance from q to the rectangle: q clamped to it on each axis.
RectDist(q, rect) ==
    SqDist(q, [x |-> Clamp(q.x, rect.minX, rect.maxX),
               y |-> Clamp(q.y, rect.minY, rect.maxY)])

KNearestCase ==
    /\ built
    /\ call.op = "getNearestNeighbours"
    /\ Len(points) >= 1
    /\ 1 <= call.maxResults
    /\ call.maxResults <= Len(points)

\* C1: for a non-empty point set P, a query q and 1 <= k <= |P|,
\* getNearestNeighbours(q, k) returns exactly k points of P, ascending by
\* squared distance to q, and no point of P left out is nearer to q than
\* the last point returned (the k smallest distances of a linear scan).
C1_KNearestAgreesWithLinearScan ==
    KNearestCase =>
        /\ outcome = "returned"
        /\ Len(returned) = call.maxResults
        /\ AscendingFrom(returned, call.searchCoord)
        /\ \A p \in Points \cup {points[i] : i \in 1..Len(points)} :
               /\ Count(returned, p) <= Count(points, p)
               /\ Count(returned, p) < Count(points, p) =>
                      SqDist(p, call.searchCoord)
                          >= SqDist(returned[Len(returned)], call.searchCoord)

\* C1 witness: a search for fewer points than the tree holds that skipped an
\* opposite child and returned maxResults points.
C1_Witness ==
    /\ KNearestCase
    /\ call.maxResults < Len(points)
    /\ \E i \in 1..Len(search.decisions) : ~search.decisions[i].searched
    /\ Len(returned) = call.maxResults

\* C2: on the tree built from an empty array, getNearestNeighbour returns
\* null and getNearestNeighbours returns an empty array, and neither query
\* fails.
C2_EmptyTreeQueriesReturnNothing ==
    (built /\ original = <<>> /\ call.op # "none") =>
        /\ outcome = "returned"
        /\ returned = <<>>

\* C3: getNearestNeighbours with maxResults < 1 reports InvalidArgument: it
\* neither returns normally nor fails with another error.
C3_BelowOneIsInvalidArgument ==
    (call.op = "getNearestNeighbours" /\ call.maxResults < 1) =>
        outcome = "InvalidArgument"

\* C4: after new KDTree(points) has returned, the caller's array holds the
\* same elements in the same order as before the call.
C4_BuildLeavesInputUnchanged ==
    built => points = original

\* C5: for maxResults >= 1, after every call of insertResult_ the result
\* list is ascending by distance and holds at most maxResults entries, and
\* so the array getNearestNeighbours returns is ascending by distance to the
\* query and no longer than maxResults.
C5_ResultsSortedAndBounded ==
    (call.op # "none" /\ call.maxResults >= 1) =>
        /\ \A n \in 1..Len(search.inserts) :
               LET after == search.inserts[n].after
               IN /\ Len(after) <= call.maxResults
                  /\ \A i \in 1..Len(after), j \in 1..Len(after) :
                         i < j => after[i].distance <= after[j].distance
        /\ outcome = "returned" =>
               /\ Len(returned) <= call.maxResults
               /\ AscendingFrom(returned, call.searchCoord)

\* C5 witness: an insertion into a full list of two entries, one of which
\* had to go.
C5_Witness ==
    /\ call.op = "getNearestNeighbours"
    /\ call.maxResults = 2
    /\ outcome = "returned"
    /\ \E n \in 1..Len(search.inserts) :
           /\ Len(search.inserts[n].before) = 2
           /\ Len(search.inserts[n].after) = 2
           /\ search.inserts[n].after # search.inserts[n].before

ScenarioCase ==
    /\ original = ScenarioPoints
    /\ call = [op |-> "getNearestNeighbours", searchCoord |-> Pt(1, 0), maxResults |-> 2]

\* C6 as amended: on the tree built from [(0,0), (1,1), (2,2), (5,5), (0,5)],
\* getNearestNeighbours((1,0), 2) returns [(0,0), (1,1)] in that order, and
\* the squared distances of the two points to the query are 1 and 1.
C6_ScenarioResult ==
    ScenarioCase =>
        /\ outcome = "returned"
        /\ returned = <<Pt(0, 0), Pt(1, 1)>>
        /\ getSquaredEuclidianDistance(1, 0, returned[1].x, returned[1].y) = 1
        /\ getSquaredEuclidianDistance(1, 0, returned[2].x, returned[2].y) = 1
        /\ search.results[1].distance = 1
        /\ search.results[2].distance = 1

\* C6 witness: the scenario's query has returned.
C6_Witness == ScenarioCase /\ outcome = "returned" /\ Len(returned) = 2

\* C6 as stated: the same result, with squared distances 1 and 2.
C6_ScenarioResultAsStated ==
    ScenarioCase =>
        /\ outcome = "returned"
        /\ returned = <<Pt(0, 0), Pt(1, 1)>>
        /\ getSquaredEuclidianDistance(1, 0, returned[1].x, returned[1].y) = 1
        /\ getSquaredEuclidianDistance(1, 0, returned[2].x, returned[2].y) = 2

\* C7: in a search with maxResults >= 1, at every node whose opposite child
\* exists, the opposite child is searched if and only if the squared
\* distance from the query to the child's rectangle is <= the largest
\* distance in the result list or the list holds fewer than maxResults
\* entries.
C7_OppositeSearchedIffWithinWorstOrNotFull ==
    (call.op # "none" /\ call.maxResults >= 1) =>
        \A i \in 1..Len(search.decisions) :
            LET d == search.decisions[i]
            IN d.searched <=>
                   \/ RectDist(call.searchCoord, d.rect) <= d.worst
                   \/ d.size < call.maxResults

\* C7 witness: one search that skipped an opposite child, the list being
\* full.
C7_Witness ==
    /\ call.op # "none"
    /\ call.maxResults >= 1
    /\ \E i \in 1..Len(search.decisions) :
           /\ ~search.decisions[i].searched
           /\ search.decisions[i].size = call.maxResults

InsertAt(s, j, e) == SubSeq(s, 1, j) \o <<e>> \o SubSeq(s, j + 1, Len(s))

DropOver(s, k) == IF Len(s) > k THEN SubSeq(s, 1, Len(s) - 1) ELSE s

\* C8 as amended: insertResult_ places the new entry immediately after the
\* last entry whose distance is strictly smaller than its own, so before the
\* entries of equal distance; if the list then exceeds maxResults entries
\* the last one is dropped.
C8_InsertBeforeEqual ==
    \A n \in 1..Len(search.inserts) :
        LET ins == search.inserts[n]
            lt == Cardinality({i \in 1..Len(ins.before) :
                                   ins.before[i].distance < ins.entry.distance})
        IN ins.after = DropOver(InsertAt(ins.before, lt, ins.entry), call.maxResults)

\* C8 witness: an entry inserted into a list that held an entry of the same
\* distance, and kept.
C8_Witness ==
    \E n \in 1..Len(search.inserts) :
        LET ins == search.inserts[n]
        IN /\ \E i \in 1..Len(ins.before) :
                  /\ ins.before[i].distance = ins.entry.distance
                  /\ ins.before[i] # ins.entry
           /\ \E i \in 1..Len(ins.after) : ins.after[i] = ins.entry

\* C8 as stated: the new entry goes immediately after the last entry whose
\* distance is <= its own, so after the entries of equal distance.
C8_InsertAfterEqual ==
    \A n \in 1..Len(search.inserts) :
        LET ins == search.inserts[n]
            le == Cardinality({i \in 1..Len(ins.before) :
                                   ins.before[i].distance <= ins.entry.distance})
        IN ins.after = DropOver(InsertAt(ins.before, le, ins.entry), call.maxResults)

RectContains(outer, inner) ==
    /\ outer.minX <= inner.minX
    /\ inner.maxX <= outer.maxX
    /\ outer.minY <= inner.minY
    /\ inner.maxY <= outer.maxY

RectValid(r) == r.minX <= r.maxX /\ r.minY <= r.maxY

\* C9: in a built tree, each child's rectangle is its parent's rectangle
\* clipped on the parent's splitting axis (depth mod 2) at the parent's own
\* coordinate (left child: the axis' max; right child: the axis' min), the
\* parent's rectangle contains it, and every rectangle has minX <= maxX and
\* minY <= maxY.
C9_ChildRectanglesClipped ==
    built =>
        \A e \in NodesAt(rootNode, 0) :
            LET n == e.node
                r == n.boundingRect
                onX == e.depth % 2 = 0
            IN /\ RectValid(r)
               /\ n.leftChild # Null =>
                      LET c == n.leftChild[1].boundingRect
                      IN /\ c = IF onX THEN [r EXCEPT !.maxX = n.point.x]
                                       ELSE [r EXCEPT !.maxY = n.point.y]
                         /\ RectContains(r, c)
               /\ n.rightChild # Null =>
                      LET c == n.rightChild[1].boundingRect
                      IN /\ c = IF onX THEN [r EXCEPT !.minX = n.point.x]
                                       ELSE [r EXCEPT !.minY = n.point.y]
                         /\ RectContains(r, c)

\* C9 witness: a built tree whose root has both children, the left one's
\* rectangle being properly smaller than the root's.
C9_Witness ==
    /\ built
    /\ rootNode # Null
    /\ rootNode[1].leftChild # Null
    /\ rootNode[1].rightChild # Null
    /\ rootNode[1].leftChild[1].boundingRect # rootNode[1].boundingRect

\* C10: the tree built from n >= 1 points has exactly n nodes and its
\* longest root-to-leaf path holds ceil(log2(n + 1)) nodes.
C10_SizeAndHeight ==
    (built /\ Len(original) >= 1) =>
        /\ Size(rootNode) = Len(original)
        /\ Height(rootNode) = CeilLog2(Len(original) + 1)

\* C10 witness: a tree of three nodes, two levels deep.
C10_Witness ==
    /\ built
    /\ Len(original) = 3
    /\ Height(rootNode) = 2

====
